---- MODULE Spec2Model ----
(***************************************************************************)
(* The C ABI shim of GameTracer (c_api): compute_sizes, ipa, gnm and       *)
(* gametracer_free, with the solver collaborators IPA and GNM as           *)
(* nondeterministic environments.                                          *)
(*                                                                         *)
(* Integer widths are scaled: int has IntBits bits (INT_MAX = 2^31-1 in    *)
(* the program), and size_t has either 2*IntBits bits (an LP64 build) or   *)
(* IntBits bits (an ILP32 build).  The scaling keeps the facts the code    *)
(* relies on: INT_MAX < SIZE_MAX on both builds, INT_MAX^2 <= SIZE_MAX on  *)
(* LP64 only, and INT_MAX^2 * sizeof(double) > SIZE_MAX on both.           *)
(***************************************************************************)
EXTENDS Integers, Sequences, FiniteSets, TLC

IntBits == 5
MaxPlayers == 3
MaxEq == 3
NVal == 3

SizeofDouble == 8

INT_MAX == 2^(IntBits - 1) - 1

\* the widths size_t can have in a build of the shim
SizeWidths == {IntBits, 2 * IntBits}

SIZE_MAX(b) == 2^b - 1

\* the value an unsigned size_t of b bits holds after computing x
SizeT(x, b) == x % (2^b)

Min(x, y) == IF x < y THEN x ELSE y

Max(x, y) == IF x > y THEN x ELSE y

RECURSIVE SeqSum(_)
SeqSum(s) == IF s = <<>> THEN 0 ELSE s[1] + SeqSum(Tail(s))

RECURSIVE SeqProd(_)
SeqProd(s) == IF s = <<>> THEN 1 ELSE s[1] * SeqProd(Tail(s))

\* action counts a caller may pass
ActVals == {-1, 0, 1, 2, 3, INT_MAX}

\* contents of an array of doubles: len values, pattern s
Pat(len, s) == [i \in 1..len |-> (i + s) % NVal]

Fill(len, v) == [i \in 1..len |-> v]

----------------------------------------------------------------------------
(* struct GameSizes; Unwritten is the struct as declared, before any store *)

Unwritten == [N |-> -1, M |-> -1, P |-> -1, payoff_len |-> -1]

\* the loop of compute_sizes from player p (0-based), with M and P so far;
\* wrapped records whether some size_t result differed from the exact value
RECURSIVE sizes_loop(_, _, _, _, _, _, _)
sizes_loop(b, num_players, actions, p, M, P, wrapped) ==
    IF p >= num_players
    THEN [ok |-> TRUE, M |-> M, P |-> P, wrapped |-> wrapped]
    ELSE LET ap == actions[p + 1]
             M1 == SizeT(M + ap, b)
             w1 == wrapped \/ (M + ap > SIZE_MAX(b))
         IN  IF ap <= 0
             THEN [ok |-> FALSE, M |-> M, P |-> P, wrapped |-> wrapped]
             ELSE IF P > SIZE_MAX(b) \div ap
                  THEN [ok |-> FALSE, M |-> M1, P |-> P, wrapped |-> w1]
                  ELSE sizes_loop(b, num_players, actions, p + 1, M1,
                                  SizeT(P * ap, b),
                                  w1 \/ (P * ap > SIZE_MAX(b)))

\* static bool compute_sizes(int num_players, const int* actions,
\*                           GameSizes& out)
compute_sizes(b, num_players, actionsPresent, actions, out) ==
    IF num_players <= 0 \/ ~actionsPresent
    THEN [ret |-> FALSE, out |-> out, wrapped |-> FALSE]
    ELSE LET l == sizes_loop(b, num_players, actions, 0, 0, 1, FALSE)
             payoff_len == SizeT(num_players * l.P, b)
             w == l.wrapped \/ (num_players * l.P > SIZE_MAX(b))
         IN  IF ~l.ok
             THEN [ret |-> FALSE, out |-> out, wrapped |-> l.wrapped]
             ELSE IF l.M > INT_MAX
             THEN [ret |-> FALSE, out |-> out, wrapped |-> l.wrapped]
             ELSE IF l.P > INT_MAX
             THEN [ret |-> FALSE, out |-> out, wrapped |-> l.wrapped]
             ELSE IF payoff_len > INT_MAX
             THEN [ret |-> FALSE, out |-> out, wrapped |-> w]
             ELSE [ret |-> TRUE,
                   out |-> [N |-> num_players, M |-> l.M, P |-> l.P,
                            payoff_len |-> payoff_len],
                   wrapped |-> w]

----------------------------------------------------------------------------
(* Memory: the caller's buffers and the shim's call-local copies, by name. *)

CallerAddrs == {"actions", "payoffs", "g", "zh", "ans"}

LocalAddrs == {"acts", "payvec", "gvec", "zhvec", "ansvec"}

Addrs == CallerAddrs \cup LocalAddrs

\* the positive entries decide how long the caller's other arrays are
RECURSIVE PosSum(_)
PosSum(s) == IF s = <<>> THEN 0 ELSE Max(s[1], 0) + PosSum(Tail(s))

RECURSIVE PosProd(_)
PosProd(s) == IF s = <<>> THEN 1 ELSE Max(s[1], 1) * PosProd(Tail(s))

\* The caller's arrays before a call: actions of length num_players, g, zh
\* and ans of length M, payoffs of length N*P (its first INT_MAX entries: no
\* accepted payoff_len is larger).  An absent pointer has no array.
CallerMem(num_players, acts, present, zhPat, ansPat) ==
    LET M == PosSum(acts)
        L == Min(Max(num_players, 0) * PosProd(acts), INT_MAX)
    IN  [a \in Addrs |->
            IF a \notin present THEN <<>>
            ELSE CASE a = "actions" -> acts
                   [] a = "payoffs" -> Pat(L, 0)
                   [] a = "g"       -> Pat(M, 0)
                   [] a = "zh"      -> Pat(M, zhPat)
                   [] a = "ans"     -> Pat(M, ansPat)
                   [] OTHER         -> <<>>]

\* what the caller can see of the memory
CallerView(mem) == [a \in CallerAddrs |-> mem[a]]

\* std::memcpy(dst, src, n * sizeof(double)) into an existing array
memcpy(mem, dst, src, n) ==
    [mem EXCEPT ![dst] = [i \in 1..Len(mem[dst]) |->
                             IF i <= n THEN mem[src][i] ELSE mem[dst][i]]]

\* cvector v(n) (or std::vector<int>) followed by the copy of n entries of src
copy_in(mem, local, src, n) ==
    memcpy([mem EXCEPT ![local] = Fill(n, 0)], local, src, n)

\* catch (const std::bad_alloc&) { return -2; } catch (...) { return -3; }
CatchCodeSwapped(kind) == IF kind = "bad_alloc" THEN -3 ELSE -2

CatchCode(kind) == IF kind = "bad_alloc" THEN -2 ELSE -3

FailKinds == {"bad_alloc", "other"}

\* position of stage s in a list of stages
StageIndex(stages, s) == CHOOSE i \in 1..Len(stages) : stages[i] = s

----------------------------------------------------------------------------
(* The solver collaborators.  What they compute is outside the shim; what  *)
(* matters here is what they can read and write: every array they are      *)
(* handed.  The result depends on all of it and on the solver's own choice.*)

Digest(mem, handed) ==
    LET RECURSIVE Total(_)
        Total(S) == IF S = {} THEN 0
                    ELSE LET a == CHOOSE x \in S : TRUE
                         IN  SeqSum(mem[a]) + Total(S \ {a})
    IN  Total(handed)

\* the collaborator overwrites every array it is handed
Scribble(mem, handed, seed) ==
    LET d == Digest(mem, handed)
    IN  [a \in Addrs |->
            IF a \in handed
            THEN [i \in 1..Len(mem[a]) |-> (d + i + seed) % NVal]
            ELSE mem[a]]

----------------------------------------------------------------------------
(* ipa *)

IpaStages == <<"acts", "payvec", "nfgame", "gvec", "zhvec", "ansvec", "IPA">>

NoHeap == [allocs |-> 0, hs |-> <<>>,
           arr |-> [alloc |-> FALSE, freed |-> 0],
           block |-> [alloc |-> FALSE, live |-> FALSE, cap |-> 0,
                      vals |-> <<>>, oob |-> FALSE],
           req |-> -1]

NoSolver == [invoked |-> FALSE, threw |-> FALSE, ret |-> 0, g |-> <<>>,
             zh |-> <<>>, ans |-> <<>>, handles |-> <<>>]

\* cvector ansvec(sz.M): fresh storage, contents left by the constructor
ipa_ansvec_from_caller(mem, M, junk) ==
    [mem EXCEPT !["ansvec"] = SubSeq(mem["ans"], 1, M)]

ipa_ansvec(mem, M, junk) == [mem EXCEPT !["ansvec"] = Fill(M, junk)]

\* the copies made before IPA is called
ipa_copy_in(mem, s, junk) ==
    LET m1 == copy_in(mem, "acts", "actions", s.N)
        m2 == copy_in(m1, "payvec", "payoffs", s.payoff_len)
        m3 == copy_in(m2, "gvec", "g", s.M)
        m4 == copy_in(m3, "zhvec", "zh", s.M)
    IN  ipa_ansvec(m4, s.M, junk)

\* the arrays IPA(A, gvec, zhvec, alpha, fuzz, ansvec) can reach
IpaHanded == {"acts", "payvec", "gvec", "zhvec", "ansvec"}

\* "Copy back outputs"
ipa_copy_back(mem, M) ==
    memcpy(memcpy(mem, "zh", "zhvec", M), "ans", "ansvec", M)

\* ch: where a failure is raised (stage, kind), and IPA's return value,
\* choice and the constructor's leftover in ansvec (ret, seed, junk)
ipa(b, num_players, present, mem, ch) ==
    IF ~({"actions", "payoffs", "g", "zh", "ans"} \subseteq present)
    THEN [fault |-> "none", ret |-> -1, mem |-> CallerView(mem),
          sz |-> [ret |-> FALSE, out |-> Unwritten, wrapped |-> FALSE],
          heap |-> NoHeap, solver |-> NoSolver]
    ELSE
    LET c == compute_sizes(b, num_players, TRUE, mem["actions"], Unwritten)
        s == c.out
    IN  IF ~c.ret
        THEN [fault |-> "none", ret |-> -1, mem |-> CallerView(mem), sz |-> c,
              heap |-> NoHeap, solver |-> NoSolver]
        ELSE IF ch.stage \notin {"none", "IPA"}
        THEN \* a constructor throws; the locals built so far are destroyed
             [fault |-> ch.kind, ret |-> CatchCode(ch.kind),
              mem |-> CallerView(mem), sz |-> c,
              heap |-> [NoHeap EXCEPT
                          !.allocs = StageIndex(IpaStages, ch.stage) - 1],
              solver |-> NoSolver]
        ELSE LET m1 == ipa_copy_in(mem, s, ch.junk)
                 m2 == Scribble(m1, IpaHanded, ch.seed)
                 sv == [NoSolver EXCEPT !.invoked = TRUE,
                                        !.threw = (ch.stage = "IPA"),
                                        !.ret = ch.ret,
                                        !.g = m2["gvec"],
                                        !.zh = m2["zhvec"],
                                        !.ans = m2["ansvec"]]
                 hp == [NoHeap EXCEPT !.allocs = 6]
             IN  IF ch.stage = "IPA"
                 THEN [fault |-> ch.kind, ret |-> CatchCode(ch.kind),
                       mem |-> CallerView(m2),
                       sz |-> c, heap |-> hp, solver |-> sv]
                 ELSE [fault |-> "none", ret |-> ch.ret,
                       mem |-> CallerView(ipa_copy_back(m2, s.M)),
                       sz |-> c, heap |-> hp, solver |-> sv]

----------------------------------------------------------------------------
(* gnm *)

GnmStages == <<"acts", "payvec", "nfgame", "gvec", "GNM">>

\* if (answers) *answers = nullptr;
clear_answers_skipped(present, answers0) == answers0

clear_answers(present, answers0) ==
    IF "answers" \in present THEN "NULL" ELSE answers0

\* static void cleanup_eq(cvector** Eq, int numEq)
cleanup_eq(h, Eq, numEq) ==
    IF Eq = "NULL" THEN h
    ELSE [h EXCEPT !.hs = [k \in 1..Len(h.hs) |->
                              IF k <= numEq
                              THEN [h.hs[k] EXCEPT !.freed = @ + 1]
                              ELSE h.hs[k]],
                   !.arr.freed = @ + 1]

\* size_t total = found * M;  the argument of malloc is total * sizeof(double)
alloc_bytes(b, found, M) == SizeT(SizeT(found * M, b) * SizeofDouble, b)

\* buf = malloc(bytes): NULL, or a block of bytes / sizeof(double) doubles
malloc(h, bytes, ok) ==
    IF ~ok THEN [h EXCEPT !.req = bytes]
    ELSE [h EXCEPT !.req = bytes, !.allocs = @ + 1,
                   !.block = [alloc |-> TRUE, live |-> TRUE,
                              cap |-> bytes \div SizeofDouble,
                              vals |-> Fill(bytes \div SizeofDouble, -1),
                              oob |-> FALSE]]

\* buf + k * M, as an index into the block (0-based)
row_offset_short(b, k, M) == SizeT(k * (M - 1), b)

row_offset(b, k, M) == SizeT(k * M, b)

\* memcpy(buf + k*M, Eq[k]->values(), M * sizeof(double)) for one k (0-based)
copy_row(h, b, k, M) ==
    LET off == row_offset(b, k, M)
        src == h.hs[k + 1]
    IN  [h EXCEPT !.hs[k + 1].readDead = @ \/ (src.freed > 0),
                  !.block.vals = [j \in 1..h.block.cap |->
                                     IF j > off /\ j <= off + M
                                     THEN src.vals[j - off]
                                     ELSE h.block.vals[j]],
                  !.block.oob = @ \/ (off + M > h.block.cap)]

\* for (int k = 0; k < found; ++k) memcpy(...)
RECURSIVE copy_rows(_, _, _, _, _)
copy_rows(h, b, k, found, M) ==
    IF k >= found THEN h
    ELSE copy_rows(copy_row(h, b, k, M), b, k + 1, found, M)

\* the arrays GNM(A, gvec, Eq, ...) can reach
GnmHandedCallerRay == {"acts", "payvec", "g"}

GnmHanded == {"acts", "payvec", "gvec"}

\* the result handles GNM has produced: n vectors of M values each
Handles(mem, n, M, seed) ==
    LET d == Digest(mem, GnmHanded)
    IN  [r \in 1..n |->
            [vals |-> [i \in 1..M |-> (d + 2 * r + i + seed) % NVal],
             freed |-> 0, readDead |-> FALSE]]

\* both catch handlers:
\* if (buf) free(buf); cleanup_eq(Eq, found > 0 ? found : 0);
gnm_catch(h, Eq, found) ==
    LET h1 == IF h.block.live THEN [h EXCEPT !.block.live = FALSE] ELSE h
    IN  cleanup_eq(h1, Eq, IF found > 0 THEN found ELSE 0)

\* ch: where a failure is raised (stage, kind); what GNM did: the count it
\* returned (k), the handles it produced (h), whether it set Eq (arr), its
\* choice (seed); and whether malloc succeeds (mallocOk)
gnm(b, num_players, present, mem, answers0, ch) ==
    LET a1 == clear_answers(present, answers0) IN
    IF ~({"actions", "payoffs", "g", "answers"} \subseteq present)
    THEN [fault |-> "none", ret |-> -1,
          mem |-> CallerView(mem), answers |-> a1,
          sz |-> [ret |-> FALSE, out |-> Unwritten, wrapped |-> FALSE],
          heap |-> NoHeap, solver |-> NoSolver]
    ELSE
    LET c == compute_sizes(b, num_players, TRUE, mem["actions"], Unwritten)
        s == c.out
    IN  IF ~c.ret
        THEN [fault |-> "none", ret |-> -1,
              mem |-> CallerView(mem), answers |-> a1, sz |-> c,
              heap |-> NoHeap, solver |-> NoSolver]
        ELSE IF ch.stage \notin {"none", "GNM"}
        THEN [fault |-> ch.kind, ret |-> CatchCode(ch.kind),
              mem |-> CallerView(mem),
              answers |-> "NULL", sz |-> c,
              heap |-> gnm_catch([NoHeap EXCEPT
                          !.allocs = StageIndex(GnmStages, ch.stage) - 1],
                          "NULL", 0),
              solver |-> NoSolver]
        ELSE
        LET m1 == copy_in(copy_in(copy_in(mem, "acts", "actions", s.N),
                                  "payvec", "payoffs", s.payoff_len),
                          "gvec", "g", s.M)
            m2 == Scribble(m1, GnmHanded, ch.seed)
            hs == Handles(m1, ch.h, s.M, ch.seed)
            Eq == IF ch.arr THEN "arr" ELSE "NULL"
            h0 == [NoHeap EXCEPT
                     !.allocs = 4 + ch.h + (IF ch.arr THEN 1 ELSE 0),
                     !.hs = hs, !.arr.alloc = ch.arr]
            sv == [NoSolver EXCEPT !.invoked = TRUE,
                                   !.threw = (ch.stage = "GNM"),
                                   !.ret = ch.k, !.g = m2["gvec"],
                                   !.handles = hs]
            found == ch.k
        IN  IF ch.stage = "GNM"
            THEN \* GNM throws: found still holds its initial 0
                 [fault |-> ch.kind, ret |-> CatchCode(ch.kind),
                  mem |-> CallerView(m2),
                  answers |-> "NULL", sz |-> c,
                  heap |-> gnm_catch(h0, Eq, 0), solver |-> sv]
            ELSE IF found = 0
            THEN [fault |-> "none", ret |-> 0,
                  mem |-> CallerView(m2), answers |-> "NULL",
                  sz |-> c, heap |-> cleanup_eq(h0, Eq, 0), solver |-> sv]
            ELSE IF found < 0
            THEN [fault |-> "none", ret |-> -3,
                  mem |-> CallerView(m2), answers |-> "NULL",
                  sz |-> c, heap |-> cleanup_eq(h0, Eq, 0), solver |-> sv]
            ELSE LET h1 == malloc(h0, alloc_bytes(b, found, s.M), ch.mallocOk)
                 IN  IF ~h1.block.alloc
                     THEN [fault |-> "none", ret |-> -2,
                           mem |-> CallerView(m2),
                           answers |-> a1, sz |-> c,
                           heap |-> cleanup_eq(h1, Eq, found), solver |-> sv]
                     ELSE [fault |-> "none", ret |-> found,
                           mem |-> CallerView(m2),
                           answers |-> "buf", sz |-> c,
                           heap |-> cleanup_eq(copy_rows(h1, b, 0, found, s.M),
                                               Eq, found),
                           solver |-> sv]

----------------------------------------------------------------------------
(* The state: the build, the caller's position, and what the last call     *)
(* left behind.                                                            *)

VARIABLES sizeBits, pc, op, args, pre, cm, answers, ret, fault, sz, heap,
          solver, twin

vars == <<sizeBits, pc, op, args, pre, cm, answers, ret, fault, sz, heap,
          solver, twin>>

NoArgs == [num_players |-> 0, present |-> {}, answers0 |-> "NULL",
           found |-> 0, M |-> 0]

NoSizes == [ret |-> FALSE, out |-> Unwritten, wrapped |-> FALSE]

NoTwin == [ret |-> 0, zh |-> <<>>, ans |-> <<>>]

IpaPtrs == {"actions", "payoffs", "g", "zh", "ans"}

GnmPtrs == {"actions", "payoffs", "g", "answers"}

\* the pointer arguments a caller passes: all of them, or all but one
PtrSets(P) == {P} \cup {P \ {x} : x \in P}

Seeds == 0..1

\* what can happen inside ipa's try block
IpaChoices ==
    [stage : {"acts", "payvec", "nfgame", "gvec", "zhvec", "ansvec"},
     kind : FailKinds, ret : {0}, seed : {0}, junk : {0}]
    \cup [stage : {"IPA"}, kind : FailKinds, ret : {0}, seed : Seeds,
          junk : Seeds]
    \cup [stage : {"none"}, kind : {"other"}, ret : -2..1, seed : Seeds,
          junk : Seeds]

IpaNoChoice == [stage |-> "none", kind |-> "other", ret |-> 0, seed |-> 0,
                junk |-> 0]

\* The result handles GNM has produced are live when it returns or throws:
\* n vectors of M doubles occupy n * M * sizeof(double) bytes of the address
\* space.
Fits(b, n, M) == n * M * SizeofDouble <= SIZE_MAX(b)

\* what can happen inside gnm's try block, for a game with M actions
GnmChoices(b, M) ==
    [stage : {"acts", "payvec", "nfgame", "gvec"}, kind : FailKinds,
     k : {0}, h : {0}, arr : {FALSE}, seed : {0}, mallocOk : {TRUE}]
    \cup {c \in [stage : {"GNM"}, kind : FailKinds, k : {0}, h : 0..MaxEq,
                 arr : BOOLEAN, seed : Seeds, mallocOk : {TRUE}] :
            Fits(b, c.h, M) /\ (c.h > 0 => c.arr)}
    \cup {c \in [stage : {"none"}, kind : {"other"}, k : -2..MaxEq,
                 h : 0..MaxEq, arr : BOOLEAN, seed : Seeds,
                 mallocOk : BOOLEAN] :
            /\ c.h = Max(c.k, 0)
            /\ Fits(b, c.h, M)
            /\ c.k > 0 => c.arr
            /\ c.k <= 0 => c.mallocOk}

GnmNoChoice == [stage |-> "none", kind |-> "other", k |-> 0, h |-> 0,
                arr |-> FALSE, seed |-> 0, mallocOk |-> TRUE]

Init ==
    /\ sizeBits \in SizeWidths
    /\ pc = "idle"
    /\ op = "none"
    /\ args = NoArgs
    /\ pre = CallerView(CallerMem(0, <<>>, {}, 0, 0))
    /\ cm = CallerView(CallerMem(0, <<>>, {}, 0, 0))
    /\ answers = "NULL"
    /\ ret = 0
    /\ fault = "none"
    /\ sz = NoSizes
    /\ heap = NoHeap
    /\ solver = NoSolver
    /\ twin = NoTwin

\* compute_sizes on its own
ComputeSizes ==
    /\ pc = "idle"
    /\ \E np \in -1..MaxPlayers, present \in BOOLEAN :
       \E acts \in [1..Max(np, 0) -> ActVals] :
          /\ sz' = compute_sizes(sizeBits, np, present, acts, Unwritten)
          /\ args' = [NoArgs EXCEPT !.num_players = np,
                        !.present = IF present THEN {"actions"} ELSE {}]
          /\ pre' = CallerView(CallerMem(np, acts,
                        IF present THEN {"actions"} ELSE {}, 0, 0))
          /\ cm' = pre'
    /\ pc' = "returned"
    /\ op' = "compute_sizes"
    /\ UNCHANGED <<sizeBits, answers, ret, fault, heap, solver, twin>>

\* the size gnm asks malloc for, on its own
AllocBytes ==
    /\ pc = "idle"
    /\ \E found \in 1..INT_MAX, M \in 1..INT_MAX :
          /\ heap' = [NoHeap EXCEPT !.req = alloc_bytes(sizeBits, found, M)]
          /\ args' = [NoArgs EXCEPT !.found = found, !.M = M]
    /\ pc' = "returned"
    /\ op' = "alloc_bytes"
    /\ UNCHANGED <<sizeBits, pre, cm, answers, ret, fault, sz, solver, twin>>

\* a call of ipa; twin is the same call with other contents in ans
Ipa ==
    /\ pc = "idle"
    /\ \E np \in -1..MaxPlayers, present \in PtrSets(IpaPtrs),
          zhPat \in Seeds :
       \E acts \in [1..Max(np, 0) -> ActVals] :
       LET mem == CallerMem(np, acts, present, zhPat, 0)
           mem2 == CallerMem(np, acts, present, zhPat, 1)
           accepted == /\ IpaPtrs \subseteq present
                       /\ compute_sizes(sizeBits, np, TRUE, acts, Unwritten).ret
       IN  \E ch \in IF accepted THEN IpaChoices ELSE {IpaNoChoice} :
           LET r == ipa(sizeBits, np, present, mem, ch)
               r2 == ipa(sizeBits, np, present, mem2, ch)
           IN  /\ args' = [NoArgs EXCEPT !.num_players = np,
                                         !.present = present]
               /\ pre' = CallerView(mem)
               /\ cm' = r.mem
               /\ ret' = r.ret
               /\ fault' = r.fault
               /\ sz' = r.sz
               /\ heap' = r.heap
               /\ solver' = r.solver
               /\ twin' = [ret |-> r2.ret, zh |-> r2.mem["zh"],
                           ans |-> r2.mem["ans"]]
    /\ pc' = "returned"
    /\ op' = "ipa"
    /\ UNCHANGED <<sizeBits, answers>>

\* a call of gnm; answers0 is what the caller's pointer held before
Gnm ==
    /\ pc = "idle"
    /\ \E np \in -1..MaxPlayers, present \in PtrSets(GnmPtrs),
          answers0 \in {"NULL", "stale"} :
       \E acts \in [1..Max(np, 0) -> ActVals] :
       LET mem == CallerMem(np, acts, present, 0, 0)
           c == compute_sizes(sizeBits, np, TRUE, acts, Unwritten)
           accepted == GnmPtrs \subseteq present /\ c.ret
       IN  /\ ("answers" \notin present => answers0 = "NULL")
           /\ \E ch \in IF accepted THEN GnmChoices(sizeBits, c.out.M)
                        ELSE {GnmNoChoice} :
              LET r == gnm(sizeBits, np, present, mem, answers0, ch)
              IN  /\ args' = [NoArgs EXCEPT !.num_players = np,
                                            !.present = present,
                                            !.answers0 = answers0]
                  /\ pre' = CallerView(mem)
                  /\ cm' = r.mem
                  /\ answers' = r.answers
                  /\ ret' = r.ret
                  /\ fault' = r.fault
                  /\ sz' = r.sz
                  /\ heap' = r.heap
                  /\ solver' = r.solver
    /\ pc' = "returned"
    /\ op' = "gnm"
    /\ UNCHANGED <<sizeBits, twin>>

\* gametracer_free(*answers) by the caller of gnm; free(NULL) does nothing
GametracerFree ==
    /\ pc = "returned"
    /\ op = "gnm"
    /\ "answers" \in args.present
    /\ heap' = IF answers = "NULL" THEN heap
               ELSE [heap EXCEPT !.block.live = FALSE]
    /\ pc' = "released"
    /\ op' = "gametracer_free"
    /\ UNCHANGED <<sizeBits, args, pre, cm, answers, ret, fault, sz, solver,
                   twin>>

Next == ComputeSizes \/ AllocBytes \/ Ipa \/ Gnm \/ GametracerFree

Spec == Init /\ [][Next]_vars

----------------------------------------------------------------------------
(* The mathematical reference for the sizes of the game the caller passed. *)

RefActs == pre["actions"]

RefN == args.num_players

RefM == SeqSum(RefActs)

RefP == SeqProd(RefActs)

RefValid ==
    /\ RefN > 0
    /\ "actions" \in args.present
    /\ \A p \in 1..Len(RefActs) : RefActs[p] > 0
    /\ RefM <= INT_MAX
    /\ RefP <= INT_MAX
    /\ RefN * RefP <= INT_MAX

Required == IF op = "ipa" THEN IpaPtrs ELSE GnmPtrs

\* the collaborator was called and returned normally
SolverReturned == solver.invoked /\ ~solver.threw

----------------------------------------------------------------------------
(* Claims *)

\* C1: a call of ipa or gnm that passes validation returns -2 when an
\* allocation failure is raised (bad_alloc anywhere in the try block, or a
\* failed malloc of the gnm result block) and -3 when any other failure is
\* raised; a negative count from GNM is reported as -3; and unless the
\* collaborator itself returned a negative value, a negative return value
\* is -1, -2 or -3.
C1_FailuresBecomeCodes ==
    op \in {"ipa", "gnm"} =>
        /\ (sz.ret /\ fault = "bad_alloc") => ret = -2
        /\ (sz.ret /\ fault = "other") => ret = -3
        /\ (op = "gnm" /\ SolverReturned /\ solver.ret > 0
               /\ ~heap.block.alloc) => ret = -2
        /\ (op = "gnm" /\ SolverReturned /\ solver.ret < 0) => ret = -3
        /\ (ret < 0 /\ ~(SolverReturned /\ solver.ret < 0))
               => ret \in {-1, -2, -3}

\* C1 witness: a failure other than bad_alloc raised inside GNM, after
\* validation passed, came back as -3
C1_Witness ==
    /\ op = "gnm"
    /\ sz.ret
    /\ solver.invoked /\ solver.threw
    /\ fault = "other"
    /\ ret = -3

\* C2: if num_players <= 0, a required pointer is absent, some actions[p]
\* is <= 0, or M, P or N*P exceeds INT_MAX, then ipa and gnm return -1,
\* allocate nothing, do not call the collaborator and write no caller
\* buffer, except that gnm sets *answers to null.
C2_ValidationFirst ==
    (op \in {"ipa", "gnm"} /\ ~(RefValid /\ Required \subseteq args.present))
    => /\ ret = -1
       /\ heap.allocs = 0
       /\ ~solver.invoked
       /\ cm = pre
       /\ op = "gnm" =>
             answers = IF "answers" \in args.present THEN "NULL"
                       ELSE args.answers0

\* C3: after gnm with a non-null answers out-parameter, *answers is null
\* whenever the return value is <= 0, and it is non-null only when the
\* return value is > 0, in which case it is the live result block.
C3_AnswersNullUnlessPositive ==
    (op = "gnm" /\ "answers" \in args.present)
    => /\ ret <= 0 => answers = "NULL"
       /\ answers # "NULL" => (ret > 0 /\ answers = "buf" /\ heap.block.live)

\* C3 witness: the caller's pointer held a stale value, GNM found
\* equilibria, the malloc of the result block failed, and *answers is null
C3_Witness ==
    /\ op = "gnm"
    /\ args.answers0 = "stale"
    /\ SolverReturned /\ solver.ret > 0
    /\ ret = -2
    /\ answers = "NULL"

\* C4: whenever gnm returns, every result handle GNM produced and the
\* handle array have been released exactly once, no handle was read after
\* its release, and the result block is live exactly when the return value
\* is > 0.
C4_NoLeak ==
    op = "gnm"
    => /\ \A k \in 1..Len(heap.hs) :
             heap.hs[k].freed = 1 /\ ~heap.hs[k].readDead
       /\ heap.arr.freed = (IF heap.arr.alloc THEN 1 ELSE 0)
       /\ heap.block.live <=> ret > 0

\* the block gnm hands out holds exactly the rows of the result handles
BlockIsRows ==
    (op = "gnm" /\ SolverReturned /\ solver.ret > 0 /\ heap.block.alloc
        /\ Fits(sizeBits, solver.ret, sz.out.M))
    => LET k == solver.ret
           M == sz.out.M
       IN  /\ ret = k
           /\ answers = "buf"
           /\ heap.req = k * M * SizeofDouble
           /\ heap.block.cap = k * M
           /\ ~heap.block.oob
           /\ \A row \in 0..(k - 1), i \in 0..(M - 1) :
                 heap.block.vals[row * M + i + 1]
                     = solver.handles[row + 1].vals[i + 1]

C6_NegativeIpaIsInternal ==
    (op = "ipa" /\ SolverReturned)
    => /\ solver.ret < 0 => ret = -3
       /\ solver.ret >= 0 => ret = solver.ret

\* C7: for num_players > 0 and a present sequence, compute_sizes returns
\* true exactly when every action count is positive and sum, product and
\* N*product are <= INT_MAX, with outputs N, M = sum, P = product and
\* payoff_len = N*P; otherwise it returns false and leaves the struct
\* unwritten.  N = 2, actions = [3, 2] gives M = 5, P = 6, payoff_len = 12.
C7_SizesMatchReference ==
    (op = "compute_sizes" /\ RefN > 0 /\ "actions" \in args.present)
    => /\ sz.ret <=> RefValid
       /\ sz.ret => sz.out = [N |-> RefN, M |-> RefM, P |-> RefP,
                              payoff_len |-> RefN * RefP]
       /\ ~sz.ret => sz.out = Unwritten
       /\ RefActs = <<3, 2>> =>
             sz.out = [N |-> 2, M |-> 5, P |-> 6, payoff_len |-> 12]

\* C8: after ipa or gnm, whatever the outcome and although the collaborator
\* overwrites every array it is handed, the caller's actions, payoffs and g
\* hold what they held before the call; gnm writes none of the caller's
\* arrays.
C8_InputsUntouched ==
    op \in {"ipa", "gnm"}
    => /\ cm["actions"] = pre["actions"]
       /\ cm["payoffs"] = pre["payoffs"]
       /\ cm["g"] = pre["g"]
       /\ op = "gnm" => cm = pre

\* C8 witness: GNM was called and overwrote the ray it was handed
C8_Witness ==
    /\ op = "gnm"
    /\ solver.invoked
    /\ Len(pre["g"]) > 0
    /\ solver.g # pre["g"]
    /\ cm["g"] = pre["g"]

\* C9: after an ipa call in which IPA returns, the caller's zh and ans hold
\* the M entries of the collaborator's final work buffer and answer; and
\* the same call made with other initial contents of ans gives the same
\* return value, the same final zh and, when IPA returns, the same final
\* ans.
C9_IpaOutputsAreSolverOutputs ==
    op = "ipa"
    => /\ SolverReturned =>
             /\ Len(cm["zh"]) = sz.out.M /\ cm["zh"] = solver.zh
             /\ Len(cm["ans"]) = sz.out.M /\ cm["ans"] = solver.ans
             /\ twin.ans = cm["ans"]
       /\ twin.ret = ret
       /\ twin.zh = cm["zh"]

\* C9 witness: IPA returned success and ipa replaced the caller's ans
C9_Witness ==
    /\ op = "ipa"
    /\ SolverReturned
    /\ ret > 0
    /\ Len(cm["ans"]) >= 2
    /\ cm["ans"] # pre["ans"]
    /\ cm["zh"] # pre["zh"]

\* C10: in compute_sizes no intermediate value of M, P or N*P exceeds or
\* wraps the range of the variable that holds it, and no game whose sizes
\* exceed INT_MAX is accepted.
C10_NoWrappedIntermediate ==
    (op \in {"compute_sizes", "ipa", "gnm"} /\ "actions" \in args.present)
    => /\ ~sz.wrapped
       /\ sz.ret => (RefM <= INT_MAX /\ RefP <= INT_MAX
                        /\ RefN * RefP <= INT_MAX)

====
